---- MODULE Spec2Model ----
(***************************************************************************)
(* A model of tools/generate_sfx.py: generate_clunk(filepath) synthesises  *)
(* a short impact sound sample by sample and streams it, through Python's  *)
(* wave.Wave_write, into a 16-bit mono PCM container at filepath.          *)
(*                                                                         *)
(* Floating-point quantities are held in fixed point:                      *)
(*   value, signal, noise   in units of 1/ValueUnit   (ValueUnit = 32767*20)*)
(*   envelope               in units of 1/EnvUnit                          *)
(*   frequency              in micro-hertz                                 *)
(*   duration               in units of 1/DurationUnit seconds             *)
(*   t                      in units of 1/sample_rate seconds              *)
(* math.exp and math.sin are evaluated by their Taylor polynomials, which  *)
(* are accurate to a unit of the resolution over the modelled time range.  *)
(* The file on disk is modelled by what has passed through the registered  *)
(* write calls (header fields and payload bytes).                          *)
(***************************************************************************)
EXTENDS Integers, Sequences, FiniteSets, TLC

VARIABLES
    pc,           \* position in generate_clunk
    outcome,      \* "running" | "returned" | "raised"
    sample_rate,  \* line 9
    duration,     \* line 10, in 1/DurationUnit s
    frequency,    \* line 11 / 36, in micro-hertz
    n_samples,    \* line 21
    i,            \* loop index, line 23
    t,            \* line 24, numerator of i / sample_rate
    envelope,     \* line 27
    signal,       \* line 30
    noise,        \* line 33
    value,        \* line 39
    sample,       \* lines 42-43
    wav_file,     \* the Wave_write object of line 16
    disk,         \* the file at filepath
    dirExists,    \* whether os.path.dirname(filepath) exists
    generated,    \* history: the quantized samples in generation order
    freqUsed      \* history: the frequency read by line 30 for each sample

vars == <<pc, outcome, sample_rate, duration, frequency, n_samples, i, t,
          envelope, signal, noise, value, sample, wav_file, disk, dirExists,
          generated, freqUsed>>

locals == <<frequency, n_samples, i, t, envelope, signal, noise, value, sample>>

params == <<sample_rate, duration>>

history == <<generated, freqUsed>>

(***************************************************************************)
(* Bounds of the model.                                                    *)
(***************************************************************************)
\* Largest duration drawn, in 1/DurationUnit s (half sample periods).
MaxDuration == 7

\* random.random() is drawn from {k / RandomLevels : k \in 0..RandomLevels-1}.
RandomLevels == 4

\* The quantizer's inputs are drawn from {k / QuantSteps : |k| <= 2*QuantSteps}.
QuantSteps == 20

(***************************************************************************)
(* Program constants.                                                      *)
(***************************************************************************)
SampleRate == 44100

BaseFrequencyHz == 80

DecayRate == 25

FullScale == 32767

Int16Min == -32768

Int16Max == 32767

NChannels == 1

SampWidth == 2

WaveFormatPcm == 1

RiffOverhead == 36

HeaderBytes == 44

(***************************************************************************)
(* Fixed-point resolutions.                                                *)
(***************************************************************************)
\* value * 32767.0 is held in units of 1/Frac.
Frac == 4 * 5

ValueUnit == FullScale * Frac

EnvUnit == 2 * 1000

MicroHz == 1000 * 1000

\* duration 0.15 s is 13230 / DurationUnit
DurationUnit == 2 * SampleRate

(***************************************************************************)
(* Integer helpers.                                                        *)
(***************************************************************************)
\* Python's int() of the quotient a / b (b > 0): truncation toward zero.
TruncDiv(a, b) == IF a >= 0 THEN a \div b ELSE -((-a) \div b)

\* Python's round() of the quotient a / b (b > 0): nearest, ties to even.
RoundDiv(a, b) ==
    LET q == a \div b
        r == a - q * b
    IN  IF 2 * r < b THEN q
        ELSE IF 2 * r > b THEN q + 1
        ELSE IF q % 2 = 0 THEN q ELSE q + 1

Max2(a, b) == IF a >= b THEN a ELSE b

Min2(a, b) == IF a <= b THEN a ELSE b

(***************************************************************************)
(* The per-sample arithmetic of lines 24-43.                               *)
(***************************************************************************)
\* line 27: math.exp(-t * 25), t = tn / rate; second-order Taylor polynomial
\* 1 - x + x^2/2 of exp(-x), x = 25 * tn / rate, in units of 1/EnvUnit.
Envelope(tn, rate) ==
    LET x == (EnvUnit * DecayRate * tn) \div rate
    IN  EnvUnit - x + (x * x) \div (2 * EnvUnit)

\* line 30: math.sin(2 * math.pi * frequency * t) in units of 1/ValueUnit.
\* f * tn / rate is the phase in micro-turns, 2*pi is taken as 710/113, and
\* sin x as x - x^3/6 (x in micro-radians).
Oscillator(f, tn, rate) ==
    LET turns == (f * tn) \div rate
        x     == (turns * 710) \div 113
        xm    == x \div 1000
        sinx  == x - (xm * xm * xm) \div 6000
    IN  (sinx * (ValueUnit \div 100)) \div 10000

\* line 33: (random.random() - 0.5) * 0.5 for random.random() = k / RandomLevels.
Noise(k) == TruncDiv((2 * k - RandomLevels) * ValueUnit, 4 * RandomLevels)

\* line 36: frequency * 0.9995, as f - f/2000 rounded to the nearest micro-hertz.
PitchDrop(f) == f - (f + 1000) \div 2000

\* line 39: (signal + noise) * envelope.
Combine(sig, nz, env) == TruncDiv((sig + nz) * env, EnvUnit)

\* A plausible slip: rounding to nearest where the code truncates.
ScaleRounding(v) == RoundDiv(v, Frac)

\* line 42: int(value * 32767.0). value is held in units of 1/(32767 * Frac),
\* so value * 32767.0 is v / Frac, and int() truncates it toward zero.
Scale(v) == TruncDiv(v, Frac)

\* A plausible slip: wrapping into 16 bits instead of saturating.
ClampWrapping(s) == ((s + 32768) % 65536) - 32768

\* line 43: max(-32768, min(32767, sample)).
Clamp(s) == Max2(Int16Min, Min2(Int16Max, s))

InInt16(s) == Int16Min <= s /\ s <= Int16Max

\* A plausible slip: big-endian byte order.
PackBigEndian(s) == <<(s % 65536) \div 256, s % 256>>

\* line 45: struct.pack('<h', sample), two's complement, low byte first.
Pack(s) == <<s % 256, (s % 65536) \div 256>>

\* What a PCM reader decodes from the two bytes of a 16-bit frame.
Unpack(lo, hi) ==
    LET u == lo + 256 * hi
    IN  IF u >= 32768 THEN u - 65536 ELSE u

\* A plausible slip: rounding the sample count to nearest.
SampleCountRounding(rate, dur) == RoundDiv(rate * dur, DurationUnit)

\* line 21: int(sample_rate * duration).
SampleCount(rate, dur) == TruncDiv(rate * dur, DurationUnit)

\* The frequency after k applications of line 36 to the value of line 11.
RECURSIVE FrequencyAt(_)
FrequencyAt(k) == IF k = 0 THEN BaseFrequencyHz * MicroHz ELSE PitchDrop(FrequencyAt(k - 1))

(***************************************************************************)
(* wave.Wave_write, as used by lines 16-19 and 45, and the file it writes. *)
(* An operation returns [w, d, raised]: the writer, the file, and whether  *)
(* it raised.  failAt names the write of the operation at which the        *)
(* operating system refuses ("none": it does not).                         *)
(***************************************************************************)
NoHeader ==
    [present |-> FALSE, riffLen |-> 0, format |-> 0, nchannels |-> 0,
     framerate |-> 0, byterate |-> 0, blockalign |-> 0, bits |-> 0, dataLen |-> 0]

NoFile == [exists |-> FALSE, header |-> NoHeader, data |-> <<>>]

\* builtins.open(filepath, 'wb'): the file exists and is empty.
EmptyFile == [exists |-> TRUE, header |-> NoHeader, data |-> <<>>]

NoWriter ==
    [open |-> FALSE, nchannels |-> 0, sampwidth |-> 0, framerate |-> 0, nframes |-> 0,
     nframeswritten |-> 0, datawritten |-> 0, datalength |-> 0, headerwritten |-> FALSE]

\* Wave_write.initfp on a file just opened.
NewWriter == [NoWriter EXCEPT !.open = TRUE]

FileBytes(d) == (IF d.header.present THEN HeaderBytes ELSE 0) + Len(d.data)

\* Wave_write._write_header(initlength).
WriteHeader(w, d, initlength) ==
    LET nf == IF w.nframes = 0 THEN initlength \div (w.nchannels * w.sampwidth) ELSE w.nframes
        dl == nf * w.nchannels * w.sampwidth
    IN  [w |-> [w EXCEPT !.nframes = nf, !.datalength = dl, !.headerwritten = TRUE],
         d |-> [d EXCEPT !.header =
                  [present |-> TRUE, riffLen |-> RiffOverhead + dl, format |-> WaveFormatPcm,
                   nchannels |-> w.nchannels, framerate |-> w.framerate,
                   byterate |-> w.nchannels * w.framerate * w.sampwidth,
                   blockalign |-> w.nchannels * w.sampwidth,
                   bits |-> w.sampwidth * 8, dataLen |-> dl]],
         raised |-> FALSE]

\* Wave_write._ensure_header_written(datasize).
EnsureHeaderWritten(w, d, datasize, failAt) ==
    IF w.headerwritten THEN [w |-> w, d |-> d, raised |-> FALSE]
    ELSE IF w.nchannels = 0 \/ w.sampwidth = 0 \/ w.framerate = 0 \/ failAt = "header"
         THEN [w |-> w, d |-> d, raised |-> TRUE]
    ELSE WriteHeader(w, d, datasize)

\* A plausible slip: the header keeps the lengths of its first writing.
PatchHeaderSkipped(w, d) == [w |-> w, d |-> d, raised |-> FALSE]

\* Wave_write._patchheader().
PatchHeader(w, d) ==
    [w |-> [w EXCEPT !.datalength = w.datawritten],
     d |-> [d EXCEPT !.header.riffLen = RiffOverhead + w.datawritten,
                     !.header.dataLen = w.datawritten],
     raised |-> FALSE]

\* Wave_write.writeframesraw(data).
WriteFramesRaw(w, d, data, failAt) ==
    LET h == EnsureHeaderWritten(w, d, Len(data), failAt)
    IN  IF h.raised THEN h
        ELSE IF failAt = "data" THEN [h EXCEPT !.raised = TRUE]
        ELSE [w |-> [h.w EXCEPT !.datawritten = @ + Len(data),
                                !.nframeswritten = @ + Len(data) \div (h.w.sampwidth * h.w.nchannels)],
              d |-> [h.d EXCEPT !.data = @ \o data],
              raised |-> FALSE]

\* Wave_write.writeframes(data).
WriteFrames(w, d, data, failAt) ==
    LET r == WriteFramesRaw(w, d, data, failAt)
    IN  IF r.raised \/ r.w.datalength = r.w.datawritten THEN r
        ELSE IF failAt = "patch" THEN [r EXCEPT !.raised = TRUE]
        ELSE PatchHeader(r.w, r.d)

\* A plausible slip: the writer is left open when its body raised.
CloseSkipped(w, d, failAt) == [w |-> w, d |-> d, raised |-> FALSE]

\* Wave_write.close(): whatever its try block does, the finally clause drops
\* the writer's file and closes the file it opened.
Close(w, d, failAt) ==
    LET h == EnsureHeaderWritten(w, d, 0, failAt)
        p == IF h.raised \/ h.w.datalength = h.w.datawritten THEN h
             ELSE IF failAt = "patch" THEN [h EXCEPT !.raised = TRUE]
             ELSE PatchHeader(h.w, h.d)
        f == IF ~p.raised /\ failAt = "flush" THEN [p EXCEPT !.raised = TRUE] ELSE p
    IN  [f EXCEPT !.w.open = FALSE]

(***************************************************************************)
(* generate_clunk, one action per statement.                               *)
(***************************************************************************)
\* The state on entry, lines 9-11 done; the parameters are drawn by each Init.
Entry ==
    /\ pc = "makedirs"
    /\ outcome = "running"
    /\ frequency = BaseFrequencyHz * MicroHz
    /\ n_samples = 0 /\ i = 0 /\ t = 0
    /\ envelope = 0 /\ signal = 0 /\ noise = 0 /\ value = 0 /\ sample = 0
    /\ wav_file = NoWriter
    /\ disk = NoFile
    /\ dirExists \in BOOLEAN
    /\ generated = <<>>
    /\ freqUsed = <<>>

\* sample_rate = 44100 (line 9); duration (line 10) shortened to a few samples.
Init ==
    /\ sample_rate = SampleRate
    /\ duration \in 1..MaxDuration
    /\ Entry

\* The parameters of lines 9-10 taken as arguments, valid or not.
InitAnyParams ==
    /\ sample_rate \in {-SampleRate, 0, SampleRate}
    /\ duration \in -MaxDuration..MaxDuration
    /\ Entry

\* A failure that leaves generate_clunk before the with statement is entered.
Raise ==
    /\ pc' = "done"
    /\ outcome' = "raised"

\* line 14: os.makedirs(os.path.dirname(filepath), exist_ok=True); may raise OSError.
MakeDirs ==
    /\ pc = "makedirs"
    /\ \E ok \in BOOLEAN :
          IF ok THEN /\ dirExists' = TRUE
                     /\ pc' = "open"
                     /\ UNCHANGED outcome
          ELSE /\ Raise
               /\ UNCHANGED dirExists
    /\ UNCHANGED <<params, locals, wav_file, disk, history>>

\* line 16: wave.open(filepath, 'w') creates or truncates the file; may raise OSError.
Open ==
    /\ pc = "open"
    /\ \E ok \in BOOLEAN :
          IF ok THEN /\ wav_file' = NewWriter
                     /\ disk' = EmptyFile
                     /\ pc' = "setparams"
                     /\ UNCHANGED outcome
          ELSE /\ Raise
               /\ UNCHANGED <<wav_file, disk>>
    /\ UNCHANGED <<params, locals, dirExists, history>>

\* lines 17-19: setnchannels(1), setsampwidth(2), setframerate(sample_rate);
\* setframerate raises wave.Error on a rate <= 0.
SetParams ==
    /\ pc = "setparams"
    /\ IF sample_rate <= 0
       THEN /\ wav_file' = [wav_file EXCEPT !.nchannels = NChannels, !.sampwidth = SampWidth]
            /\ pc' = "unwind"
       ELSE /\ wav_file' = [wav_file EXCEPT !.nchannels = NChannels, !.sampwidth = SampWidth,
                                            !.framerate = sample_rate]
            /\ pc' = "count"
    /\ UNCHANGED <<outcome, params, locals, disk, dirExists, history>>

\* line 21: n_samples = int(sample_rate * duration).
Count ==
    /\ pc = "count"
    /\ n_samples' = SampleCount(sample_rate, duration)
    /\ i' = 0
    /\ pc' = "loop"
    /\ UNCHANGED <<outcome, params, frequency, t, envelope, signal, noise, value, sample,
                   wav_file, disk, dirExists, history>>

\* line 23: for i in range(n_samples); i holds the index of the next sample.
Loop ==
    /\ pc = "loop"
    /\ pc' = IF i < n_samples THEN "time" ELSE "close"
    /\ UNCHANGED <<outcome, params, locals, wav_file, disk, dirExists, history>>

\* line 24: t = i / sample_rate.
Time ==
    /\ pc = "time"
    /\ t' = i
    /\ pc' = "envelope"
    /\ UNCHANGED <<outcome, params, frequency, n_samples, i, envelope, signal, noise, value,
                   sample, wav_file, disk, dirExists, history>>

\* line 27: envelope = math.exp(-t * 25).
ComputeEnvelope ==
    /\ pc = "envelope"
    /\ envelope' = Envelope(t, sample_rate)
    /\ pc' = "signal"
    /\ UNCHANGED <<outcome, params, frequency, n_samples, i, t, signal, noise, value,
                   sample, wav_file, disk, dirExists, history>>

\* A plausible slip: the pitch drop applied before the oscillator is evaluated.
ComputeSignalAfterDrop ==
    /\ pc = "signal"
    /\ signal' = Oscillator(PitchDrop(frequency), t, sample_rate)
    /\ freqUsed' = Append(freqUsed, PitchDrop(frequency))
    /\ pc' = "noise"
    /\ UNCHANGED <<outcome, params, frequency, n_samples, i, t, envelope, noise, value,
                   sample, wav_file, disk, dirExists, generated>>

\* line 30: signal = math.sin(2 * math.pi * frequency * t).
ComputeSignal ==
    /\ pc = "signal"
    /\ signal' = Oscillator(frequency, t, sample_rate)
    /\ freqUsed' = Append(freqUsed, frequency)
    /\ pc' = "noise"
    /\ UNCHANGED <<outcome, params, frequency, n_samples, i, t, envelope, noise, value,
                   sample, wav_file, disk, dirExists, generated>>

\* line 33: noise = (random.random() - 0.5) * 0.5.
DrawNoise ==
    /\ pc = "noise"
    /\ \E k \in 0..(RandomLevels - 1) : noise' = Noise(k)
    /\ pc' = "decay"
    /\ UNCHANGED <<outcome, params, frequency, n_samples, i, t, envelope, signal, value,
                   sample, wav_file, disk, dirExists, history>>

\* A plausible slip: the pitch left where it is.
DecayPitchSkipped ==
    /\ pc = "decay"
    /\ pc' = "combine"
    /\ UNCHANGED <<outcome, params, locals, wav_file, disk, dirExists, history>>

\* line 36: frequency *= 0.9995.
DecayPitch ==
    /\ pc = "decay"
    /\ frequency' = PitchDrop(frequency)
    /\ pc' = "combine"
    /\ UNCHANGED <<outcome, params, n_samples, i, t, envelope, signal, noise, value,
                   sample, wav_file, disk, dirExists, history>>

\* line 39: value = (signal + noise) * envelope.
CombineValue ==
    /\ pc = "combine"
    /\ value' = Combine(signal, noise, envelope)
    /\ pc' = "scale"
    /\ UNCHANGED <<outcome, params, frequency, n_samples, i, t, envelope, signal, noise,
                   sample, wav_file, disk, dirExists, history>>

\* line 42: sample = int(value * 32767.0).
ScaleSample ==
    /\ pc = "scale"
    /\ sample' = Scale(value)
    /\ pc' = "clamp"
    /\ UNCHANGED <<outcome, params, frequency, n_samples, i, t, envelope, signal, noise,
                   value, wav_file, disk, dirExists, history>>

\* line 43: sample = max(-32768, min(32767, sample)).
ClampSample ==
    /\ pc = "clamp"
    /\ sample' = Clamp(sample)
    /\ generated' = Append(generated, sample')
    /\ pc' = "write"
    /\ UNCHANGED <<outcome, params, frequency, n_samples, i, t, envelope, signal, noise,
                   value, wav_file, disk, dirExists, freqUsed>>

\* line 45: wav_file.writeframes(struct.pack('<h', sample)).  struct.pack raises
\* struct.error on a value outside 16 bits; the write may raise OSError.
WriteFrame ==
    /\ pc = "write"
    /\ IF ~InInt16(sample)
       THEN /\ pc' = "unwind"
            /\ UNCHANGED <<i, wav_file, disk>>
       ELSE \E failAt \in {"none", "header", "data", "patch"} :
               LET r == WriteFrames(wav_file, disk, Pack(sample), failAt)
               IN  /\ wav_file' = r.w
                   /\ disk' = r.d
                   /\ IF r.raised THEN pc' = "unwind" /\ i' = i
                                  ELSE pc' = "loop" /\ i' = i + 1
    /\ UNCHANGED <<outcome, params, frequency, n_samples, t, envelope, signal, noise,
                   value, sample, dirExists, history>>

\* line 16, leaving the with block normally: Wave_write.__exit__ calls close().
ExitWith ==
    /\ pc = "close"
    /\ \E failAt \in {"none", "header", "patch", "flush"} :
          LET r == Close(wav_file, disk, failAt)
          IN  /\ wav_file' = r.w
              /\ disk' = r.d
              /\ IF r.raised THEN Raise
                             ELSE pc' = "print" /\ outcome' = outcome
    /\ UNCHANGED <<params, locals, dirExists, history>>

\* line 16, leaving the with block by an exception: __exit__ calls close() and
\* does not swallow the exception.
ExitWithRaised ==
    /\ pc = "unwind"
    /\ \E failAt \in {"none", "header", "patch", "flush"} :
          LET r == Close(wav_file, disk, failAt)
          IN  /\ wav_file' = r.w
              /\ disk' = r.d
    /\ Raise
    /\ UNCHANGED <<params, locals, dirExists, history>>

\* line 47: print, then return to the caller.
Return ==
    /\ pc = "print"
    /\ pc' = "done"
    /\ outcome' = "returned"
    /\ UNCHANGED <<params, locals, wav_file, disk, dirExists, history>>

Next ==
    \/ MakeDirs
    \/ Open
    \/ SetParams
    \/ Count
    \/ Loop
    \/ Time
    \/ ComputeEnvelope
    \/ ComputeSignal
    \/ DrawNoise
    \/ DecayPitch
    \/ CombineValue
    \/ ScaleSample
    \/ ClampSample
    \/ WriteFrame
    \/ ExitWith
    \/ ExitWithRaised
    \/ Return

Spec == Init /\ [][Next]_vars

SpecAnyParams == InitAnyParams /\ [][Next]_vars

(***************************************************************************)
(* The quantizer as a function of an arbitrary Sample: the loop body from  *)
(* line 42 on, for the single sample of a one-sample run.                  *)
(***************************************************************************)
QuantInputs == { (k * ValueUnit) \div QuantSteps : k \in (-2 * QuantSteps)..(2 * QuantSteps) }

InitQuantize ==
    /\ pc = "scale"
    /\ outcome = "running"
    /\ sample_rate = SampleRate
    /\ duration = 2
    /\ frequency = PitchDrop(BaseFrequencyHz * MicroHz)
    /\ n_samples = 1 /\ i = 0 /\ t = 0
    /\ envelope = EnvUnit /\ signal = 0 /\ noise = 0 /\ sample = 0
    /\ value \in QuantInputs
    /\ wav_file = [NewWriter EXCEPT !.nchannels = NChannels, !.sampwidth = SampWidth,
                                    !.framerate = SampleRate]
    /\ disk = EmptyFile
    /\ dirExists = TRUE
    /\ generated = <<>>
    /\ freqUsed = <<BaseFrequencyHz * MicroHz>>

NextQuantize ==
    \/ ScaleSample
    \/ ClampSample
    \/ WriteFrame
    \/ Loop
    \/ ExitWith
    \/ ExitWithRaised
    \/ Return

SpecQuantize == InitQuantize /\ [][NextQuantize]_vars

(***************************************************************************)
(* Vocabulary of the properties.                                           *)
(***************************************************************************)
\* The last writeframes call succeeded: value and sample are those of the frame
\* at the end of the file.
FrameWritten == pc = "loop" /\ i > 0 /\ Len(disk.data) >= 2

LastFrame == Unpack(disk.data[Len(disk.data) - 1], disk.data[Len(disk.data)])

\* The k-th frame of the payload, as a PCM reader decodes it.
Frame(k) == Unpack(disk.data[2 * k - 1], disk.data[2 * k])

FramesOnDisk == Len(disk.data) \div 2

InvalidParams == sample_rate <= 0 \/ duration <= 0

\* A container holding the whole of the sound.
CompleteContainer ==
    /\ disk.header.present
    /\ disk.header.dataLen = Len(disk.data)
    /\ disk.header.riffLen = RiffOverhead + Len(disk.data)
    /\ Len(disk.data) = 2 * n_samples

(***************************************************************************)
(* Properties.                                                             *)
(***************************************************************************)

C4_NoPartialFileOnFailure ==
    outcome = "raised" => (~disk.exists \/ CompleteContainer)

\* C5: after a call that returns, the header declares 1 channel, 16 bits and
\* 44100 Hz, its data length is twice the number of frames written and the
\* number of payload bytes, its total size is the file's size less the 8 bytes
\* before it, and the file holds 44 + 2 * n_samples bytes.
C5_ContainerConsistent ==
    outcome = "returned" =>
        /\ disk.exists /\ disk.header.present
        /\ disk.header.format = WaveFormatPcm
        /\ disk.header.nchannels = 1
        /\ disk.header.bits = 16
        /\ disk.header.framerate = 44100
        /\ disk.header.byterate = 88200
        /\ disk.header.blockalign = 2
        /\ disk.header.dataLen = 2 * wav_file.nframeswritten
        /\ disk.header.dataLen = Len(disk.data)
        /\ disk.header.riffLen = FileBytes(disk) - 8
        /\ FileBytes(disk) = 44 + 2 * n_samples

\* A call returned after at least two frames: the header was written for one
\* frame and patched afterwards.
C5_Witness ==
    /\ outcome = "returned"
    /\ n_samples >= 2
    /\ disk.header.dataLen = 2 * n_samples

\* C6: the value handed to struct.pack lies in [-32768, 32767], the frame
\* written is the boundary whenever the scaled Sample lies beyond it, and
\* Samples of +2.0 and -2.0 are written as 32767 and -32768.
C6_Saturates ==
    /\ pc = "write" => InInt16(sample)
    /\ FrameWritten =>
          /\ TruncDiv(value, Frac) >= Int16Max => LastFrame = Int16Max
          /\ TruncDiv(value, Frac) <= Int16Min => LastFrame = Int16Min
          /\ value = 2 * ValueUnit => LastFrame = 32767
          /\ value = -2 * ValueUnit => LastFrame = -32768

\* The Sample +2.0, scaled to 65534, was written as 32767.
C6_Witness ==
    /\ FrameWritten
    /\ value = 2 * ValueUnit
    /\ TruncDiv(value, Frac) = 65534
    /\ LastFrame = 32767

\* C7: the payload is a whole number of 2-byte frames, the k-th of which
\* decodes to the k-th quantized sample generated, and a call that returns has
\* written one frame for each of the n_samples samples.
C7_PayloadInGenerationOrder ==
    /\ Len(disk.data) = 2 * FramesOnDisk
    /\ FramesOnDisk <= Len(generated)
    /\ \A k \in 1..FramesOnDisk : Frame(k) = generated[k]
    /\ outcome = "returned" => FramesOnDisk = n_samples /\ Len(generated) = n_samples

\* A call returned after writing at least two frames, one of them negative and
\* two of them different.
C7_Witness ==
    /\ outcome = "returned"
    /\ FramesOnDisk >= 2
    /\ Frame(1) < 0
    /\ Frame(1) # Frame(2)
    /\ Frame(2) = generated[2]

\* C8: when control is back with the caller, the file that wave.open opened
\* is closed.
C8_HandleClosedOnExit ==
    pc = "done" => ~wav_file.open

\* The call raised from inside the loop, after a frame had been written, and
\* the file is closed.
C8_Witness ==
    /\ pc = "done"
    /\ outcome = "raised"
    /\ i >= 1
    /\ i < n_samples
    /\ ~wav_file.open

\* The frequencies read by line 30 never rise from one sample to the next.
NonIncreasing ==
    \A k \in 1..(Len(freqUsed) - 1) : freqUsed[k + 1] <= freqUsed[k]

C10_DropOnceAfterOscillator ==
    /\ \A k \in 1..Len(freqUsed) : freqUsed[k] = FrequencyAt(k - 1)
    /\ pc \in {"loop", "time", "envelope", "signal", "noise", "decay"} =>
          frequency = FrequencyAt(i)
    /\ pc \in {"combine", "scale", "clamp", "write"} =>
          frequency = FrequencyAt(i + 1)
    /\ pc \in {"noise", "decay", "combine"} =>
          signal = Oscillator(FrequencyAt(i), i, sample_rate)
    /\ pc \in {"scale", "clamp", "write"} =>
          value = Combine(Oscillator(FrequencyAt(i), i, sample_rate), noise,
                          Envelope(i, sample_rate))

\* A sample past the first has been combined, and the oscillator value in it
\* is not the one the frequency after the drop would have given.
C10_Witness ==
    /\ pc = "write"
    /\ i >= 1
    /\ frequency < freqUsed[i + 1]
    /\ signal = Oscillator(freqUsed[i + 1], t, sample_rate)
    /\ signal # Oscillator(frequency, t, sample_rate)

====
